---------------------------- MODULE Spec2Model ----------------------------
(***************************************************************************)
(* Model of environments/osqueryconf.go of osctrl: the osquery             *)
(* configuration of an environment is kept as five JSON fragments          *)
(* (options, schedule, packs, decorators, ATC) plus the composed           *)
(* configuration, all text columns of one TLSEnvironment row.              *)
(*                                                                         *)
(* JSON texts are modelled by their parse tree plus their layout; Go       *)
(* values by a tagged tree.  encoding/json is modelled by what it does on  *)
(* these trees (omitempty, null into a map, type mismatches, numbers       *)
(* decoding to float64, ...).                                              *)
(***************************************************************************)
EXTENDS Integers, Sequences, FiniteSets, TLC

(***************************************************************************)
(* Bounds of the model.                                                    *)
(***************************************************************************)
\* largest interval, in minutes, of the scheduled queries handed in
MaxInterval == 1
\* number of callers that run handlers on the environment at the same time
NumProcs == 2

OptionKeys == {"k1"}
QueryNames == {"q1"}

(***************************************************************************)
(* Trees.  One record shape serves JSON nodes and Go interface{} values:   *)
(*   k  the kind, s  a string payload, n  a number payload,                *)
(*   m  the members of an object/map, a  the elements of an array/slice.   *)
(***************************************************************************)
EmptyMap == [x \in {} |-> x]

Nd(k, s, n, m, a) == [k |-> k, s |-> s, n |-> n, m |-> m, a |-> a]

\* m with key x set to v (Go: m[x] = v)
MapSet(m, x, v) == [y \in (DOMAIN m) \cup {x} |-> IF y = x THEN v ELSE m[y]]

\* JSON nodes
JEmpty == Nd("empty", "", 0, EmptyMap, <<>>)      \* zero bytes of input
JInvalid == Nd("invalid", "", 0, EmptyMap, <<>>)  \* bytes that are not JSON
JNull == Nd("null", "", 0, EmptyMap, <<>>)
JTrue == Nd("true", "", 0, EmptyMap, <<>>)
JFalse == Nd("false", "", 0, EmptyMap, <<>>)
JNum(n) == Nd("number", "", n, EmptyMap, <<>>)
JStr(s) == Nd("string", s, 0, EmptyMap, <<>>)
JArr(a) == Nd("array", "", 0, EmptyMap, a)
JObj(m) == Nd("object", "", 0, m, <<>>)

\* Go values held in an interface{}
GoNil == Nd("nil", "", 0, EmptyMap, <<>>)
GoString(s) == Nd("string", s, 0, EmptyMap, <<>>)
GoFloat(n) == Nd("float64", "", n, EmptyMap, <<>>)
GoInt(n) == Nd("int", "", n, EmptyMap, <<>>)
GoBool(b) == Nd("bool", "", IF b THEN 1 ELSE 0, EmptyMap, <<>>)
GoMapIface(m) == Nd("map", "", 0, m, <<>>)
GoSliceIface(a) == Nd("slice", "", 0, EmptyMap, a)
\* a value encoding/json cannot marshal (a channel, a func, a NaN)
GoChan == Nd("chan", "", 0, EmptyMap, <<>>)

\* a Go map variable: nil, or a map with entries m
GoMap(isNil, m) == [isNil |-> isNil, m |-> m]
NilMap == GoMap(TRUE, EmptyMap)
MakeMap(m) == GoMap(FALSE, m)

\* a Go []string variable: nil, or a slice with elements a
GoSlice(isNil, a) == [isNil |-> isNil, a |-> a]
NilSlice == GoSlice(TRUE, <<>>)

\* a text: the JSON tree v laid out as ws ("flat": nothing to indent,
\* "indented": two-space indent, "compact": no white space)
Raw(ws, v) == [ws |-> ws, v |-> v]
EmptyString == Raw("flat", JEmpty)
Garbage == Raw("flat", JInvalid)

NoErr == "nil"

(***************************************************************************)
(* The order of the members of an object in a text.  encoding/json writes  *)
(* the entries of a map sorted by key and the fields of a struct in the    *)
(* order of their declaration.  An object node keeps, in a, the keys in    *)
(* the order written when that is not the sorted order; a is empty for an  *)
(* object whose members are written sorted by key.                         *)
(***************************************************************************)
\* the JSON member names of the struct types, sorted
AlphaOrder ==
  <<"always", "auto_table_construction", "decorators", "denylist", "discovery",
    "interval", "load", "options", "packs", "platform", "queries", "query",
    "removed", "schedule", "shard", "snapshot", "version">>

Rank(x) == CHOOSE i \in DOMAIN AlphaOrder : AlphaOrder[i] = x

IsSorted(seq) == \A i, j \in DOMAIN seq : i < j => Rank(seq[i]) < Rank(seq[j])

\* the object a struct is written as: fields are its member names in the
\* order of declaration, m the members emitted
StructObj(fields, m) ==
  LET InM(x) == x \in DOMAIN m
      seq == SelectSeq(fields, InM)
  IN Nd("object", "", 0, m,
        IF IsSorted(seq) THEN <<>> ELSE [i \in DOMAIN seq |-> JStr(seq[i])])

\* the members of ScheduleQuery, PackEntry, DecoratorConf and OsqueryConf
QueryFields ==
  <<"query", "interval", "removed", "snapshot", "platform", "version", "shard",
    "denylist">>
PackFields == <<"queries", "platform", "shard", "version", "discovery">>
DecoratorFields == <<"load", "always", "interval">>
ConfFields == <<"options", "schedule", "packs", "decorators", "auto_table_construction">>

\* the JSON member names of ScheduleQuery that are emitted for q: every
\* field carries omitempty
QueryMembers(q) ==
  (IF q.Query # "" THEN {"query"} ELSE {}) \cup
  (IF q.Interval # 0 THEN {"interval"} ELSE {}) \cup
  (IF q.Removed THEN {"removed"} ELSE {}) \cup
  (IF q.Snapshot THEN {"snapshot"} ELSE {}) \cup
  (IF q.Platform # "" THEN {"platform"} ELSE {}) \cup
  (IF q.Version # "" THEN {"version"} ELSE {}) \cup
  (IF q.Shard # 0 THEN {"shard"} ELSE {}) \cup
  (IF q.Denylist THEN {"denylist"} ELSE {})

MarshalScheduleQuery(q) ==
  StructObj(QueryFields,
            [x \in QueryMembers(q) |->
               CASE x = "query" -> JStr(q.Query)
                 [] x = "interval" -> JNum(q.Interval)
                 [] x = "platform" -> JStr(q.Platform)
                 [] x = "version" -> JStr(q.Version)
                 [] x = "shard" -> JNum(q.Shard)
                 [] OTHER -> JTrue])

\* a ScheduleQuery and a PackEntry held in an interface{}: m holds the
\* fields under their JSON member names (queries: a "map" node of
\* ScheduleQuery nodes or nil, discovery: a "slice" node of strings or nil)
GoScheduleQuery(q) ==
  Nd("ScheduleQuery", "", 0,
     [x \in {QueryFields[i] : i \in DOMAIN QueryFields} |->
        CASE x = "query" -> GoString(q.Query)
          [] x = "interval" -> GoInt(q.Interval)
          [] x = "removed" -> GoBool(q.Removed)
          [] x = "snapshot" -> GoBool(q.Snapshot)
          [] x = "platform" -> GoString(q.Platform)
          [] x = "version" -> GoString(q.Version)
          [] x = "shard" -> GoInt(q.Shard)
          [] OTHER -> GoBool(q.Denylist)], <<>>)

\* the ScheduleQuery a ScheduleQuery node holds
QueryOf(v) ==
  [Query |-> v.m["query"].s, Interval |-> v.m["interval"].n,
   Removed |-> v.m["removed"].n = 1, Snapshot |-> v.m["snapshot"].n = 1,
   Platform |-> v.m["platform"].s, Version |-> v.m["version"].s,
   Shard |-> v.m["shard"].n, Denylist |-> v.m["denylist"].n = 1]

GoPackEntry(queries, platform, shard, version, discovery) ==
  Nd("PackEntry", "", 0,
     [x \in {PackFields[i] : i \in DOMAIN PackFields} |->
        CASE x = "queries" -> queries
          [] x = "platform" -> GoString(platform)
          [] x = "shard" -> GoInt(shard)
          [] x = "version" -> GoString(version)
          [] OTHER -> discovery], <<>>)

\* the JSON member names of PackEntry that are emitted for v: every field
\* carries omitempty, and a map or slice is empty when it has no entries
PackMembers(v) ==
  (IF DOMAIN v.m["queries"].m # {} THEN {"queries"} ELSE {}) \cup
  (IF v.m["platform"].s # "" THEN {"platform"} ELSE {}) \cup
  (IF v.m["shard"].n # 0 THEN {"shard"} ELSE {}) \cup
  (IF v.m["version"].s # "" THEN {"version"} ELSE {}) \cup
  (IF Len(v.m["discovery"].a) > 0 THEN {"discovery"} ELSE {})

(***************************************************************************)
(* encoding/json on interface{} values.                                    *)
(***************************************************************************)
RECURSIVE MarshalValue(_)
MarshalValue(v) ==
  CASE v.k = "nil" -> [err |-> NoErr, j |-> JNull]
    [] v.k = "string" -> [err |-> NoErr, j |-> JStr(v.s)]
    [] v.k \in {"float64", "int"} -> [err |-> NoErr, j |-> JNum(v.n)]
    [] v.k = "bool" -> [err |-> NoErr, j |-> IF v.n = 1 THEN JTrue ELSE JFalse]
    [] v.k = "map" ->
         IF \E x \in DOMAIN v.m : MarshalValue(v.m[x]).err # NoErr
           THEN [err |-> "json: unsupported type", j |-> JEmpty]
           ELSE [err |-> NoErr,
                 j |-> JObj([x \in DOMAIN v.m |-> MarshalValue(v.m[x]).j])]
    [] v.k = "slice" ->
         IF \E i \in DOMAIN v.a : MarshalValue(v.a[i]).err # NoErr
           THEN [err |-> "json: unsupported type", j |-> JEmpty]
           ELSE [err |-> NoErr,
                 j |-> JArr([i \in DOMAIN v.a |-> MarshalValue(v.a[i]).j])]
    [] v.k = "ScheduleQuery" -> [err |-> NoErr, j |-> MarshalScheduleQuery(QueryOf(v))]
    [] v.k = "PackEntry" ->
         [err |-> NoErr,
          j |-> StructObj(PackFields,
                          [x \in PackMembers(v) |-> MarshalValue(v.m[x]).j])]
    [] OTHER -> [err |-> "json: unsupported type", j |-> JEmpty]

\* Unmarshal into an interface{}: numbers become float64
RECURSIVE UnmarshalValue(_)
UnmarshalValue(j) ==
  CASE j.k = "null" -> GoNil
    [] j.k = "string" -> GoString(j.s)
    [] j.k = "number" -> GoFloat(j.n)
    [] j.k = "true" -> GoBool(TRUE)
    [] j.k = "false" -> GoBool(FALSE)
    [] j.k = "object" -> GoMapIface([x \in DOMAIN j.m |-> UnmarshalValue(j.m[x])])
    [] j.k = "array" -> GoSliceIface([i \in DOMAIN j.a |-> UnmarshalValue(j.a[i])])

\* the error json.Unmarshal reports before looking at the target type
SyntaxErr(j) ==
  CASE j.k = "empty" -> "unexpected end of JSON input"
    [] j.k = "invalid" -> "invalid character"
    [] OTHER -> NoErr

TypeErr == "json: cannot unmarshal"


(***************************************************************************)
(* The typed parts of the configuration.                                   *)
(***************************************************************************)
\* ScheduleQuery{} : the zero value
ZeroQuery ==
  [Query |-> "", Interval |-> 0, Removed |-> FALSE, Snapshot |-> FALSE,
   Platform |-> "", Version |-> "", Shard |-> 0, Denylist |-> FALSE]

\* DecoratorConf{} : the zero value
ZeroDecorators == [Load |-> NilSlice, Always |-> NilSlice, Interval |-> GoNil]

\* OsqueryConf{} : the zero value
ZeroConf ==
  [Options |-> NilMap, Schedule |-> NilMap, Packs |-> NilMap,
   Decorators |-> ZeroDecorators, ATC |-> NilMap]

\* member x of object members m is absent, null, or of one of the kinds
MemberOK(m, x, kinds) == x \notin DOMAIN m \/ m[x].k \in (kinds \cup {"null"})
StrMember(m, x) == IF x \in DOMAIN m /\ m[x].k = "string" THEN m[x].s ELSE ""
NumMember(m, x) == IF x \in DOMAIN m /\ m[x].k = "number" THEN m[x].n ELSE 0
BoolMember(m, x) == x \in DOMAIN m /\ m[x].k = "true"

\* Unmarshal of one JSON value into a fresh ScheduleQuery
UnmarshalScheduleQuery(j) ==
  CASE j.k = "null" -> [err |-> NoErr, q |-> ZeroQuery]
    [] j.k = "object" ->
         IF /\ MemberOK(j.m, "query", {"string"})
            /\ MemberOK(j.m, "interval", {"number"})
            /\ MemberOK(j.m, "removed", {"true", "false"})
            /\ MemberOK(j.m, "snapshot", {"true", "false"})
            /\ MemberOK(j.m, "platform", {"string"})
            /\ MemberOK(j.m, "version", {"string"})
            /\ MemberOK(j.m, "shard", {"number"})
            /\ MemberOK(j.m, "denylist", {"true", "false"})
           THEN [err |-> NoErr,
                 q |-> [Query |-> StrMember(j.m, "query"),
                        Interval |-> NumMember(j.m, "interval"),
                        Removed |-> BoolMember(j.m, "removed"),
                        Snapshot |-> BoolMember(j.m, "snapshot"),
                        Platform |-> StrMember(j.m, "platform"),
                        Version |-> StrMember(j.m, "version"),
                        Shard |-> NumMember(j.m, "shard"),
                        Denylist |-> BoolMember(j.m, "denylist")]]
           ELSE [err |-> TypeErr, q |-> ZeroQuery]
    [] OTHER -> [err |-> TypeErr, q |-> ZeroQuery]

\* Unmarshal into a nil map[string]interface{} variable
UnmarshalMapIface(j) ==
  CASE SyntaxErr(j) # NoErr -> [err |-> SyntaxErr(j), data |-> NilMap]
    [] j.k = "null" -> [err |-> NoErr, data |-> NilMap]
    [] j.k = "object" ->
         [err |-> NoErr, data |-> MakeMap([x \in DOMAIN j.m |-> UnmarshalValue(j.m[x])])]
    [] OTHER -> [err |-> TypeErr, data |-> NilMap]

\* Unmarshal into a nil []string variable
UnmarshalStrings(j) ==
  CASE j.k = "null" -> [err |-> NoErr, data |-> NilSlice]
    [] j.k = "array" ->
         IF \A i \in DOMAIN j.a : j.a[i].k \in {"string", "null"}
           THEN [err |-> NoErr,
                 data |-> GoSlice(FALSE, [i \in DOMAIN j.a |->
                                            IF j.a[i].k = "string" THEN j.a[i].s ELSE ""])]
           ELSE [err |-> TypeErr, data |-> NilSlice]
    [] OTHER -> [err |-> TypeErr, data |-> NilSlice]

Member(m, x) == IF x \in DOMAIN m THEN m[x] ELSE JNull

\* Unmarshal into a nil map[string]ScheduleQuery variable
UnmarshalSchedule(j) ==
  CASE SyntaxErr(j) # NoErr -> [err |-> SyntaxErr(j), data |-> NilMap]
    [] j.k = "null" -> [err |-> NoErr, data |-> NilMap]
    [] j.k = "object" ->
         IF \E x \in DOMAIN j.m : UnmarshalScheduleQuery(j.m[x]).err # NoErr
           THEN [err |-> TypeErr, data |-> NilMap]
           ELSE [err |-> NoErr,
                 data |-> MakeMap([x \in DOMAIN j.m |-> UnmarshalScheduleQuery(j.m[x]).q])]
    [] OTHER -> [err |-> TypeErr, data |-> NilMap]

\* Unmarshal into a zero DecoratorConf variable
UnmarshalDecorators(j) ==
  CASE SyntaxErr(j) # NoErr -> [err |-> SyntaxErr(j), data |-> ZeroDecorators]
    [] j.k = "null" -> [err |-> NoErr, data |-> ZeroDecorators]
    [] j.k = "object" ->
         LET ld == UnmarshalStrings(Member(j.m, "load"))
             al == UnmarshalStrings(Member(j.m, "always"))
         IN IF ld.err # NoErr \/ al.err # NoErr
              THEN [err |-> TypeErr, data |-> ZeroDecorators]
              ELSE [err |-> NoErr,
                    data |-> [Load |-> ld.data, Always |-> al.data,
                              Interval |-> UnmarshalValue(Member(j.m, "interval"))]]
    [] OTHER -> [err |-> TypeErr, data |-> ZeroDecorators]

\* Unmarshal into a zero OsqueryConf variable
UnmarshalConf(j) ==
  CASE SyntaxErr(j) # NoErr -> [err |-> SyntaxErr(j), data |-> ZeroConf]
    [] j.k = "null" -> [err |-> NoErr, data |-> ZeroConf]
    [] j.k = "object" ->
         LET o == UnmarshalMapIface(Member(j.m, "options"))
             sc == UnmarshalSchedule(Member(j.m, "schedule"))
             p == UnmarshalMapIface(Member(j.m, "packs"))
             d == UnmarshalDecorators(Member(j.m, "decorators"))
             a == UnmarshalMapIface(Member(j.m, "auto_table_construction"))
         IN IF \E r \in {o, sc, p, a} : r.err # NoErr
              THEN [err |-> TypeErr, data |-> ZeroConf]
              ELSE IF d.err # NoErr
              THEN [err |-> TypeErr, data |-> ZeroConf]
              ELSE [err |-> NoErr,
                    data |-> [Options |-> o.data, Schedule |-> sc.data, Packs |-> p.data,
                              Decorators |-> d.data, ATC |-> a.data]]
    [] OTHER -> [err |-> TypeErr, data |-> ZeroConf]

GenStructConf(configuration) == UnmarshalConf(configuration.v)

GenStructOptions(configuration) == UnmarshalMapIface(configuration.v)

GenStructSchedule(configuration) == UnmarshalSchedule(configuration.v)

GenStructPacks(configuration) == UnmarshalMapIface(configuration.v)

GenStructDecorators(configuration) == UnmarshalDecorators(configuration.v)

GenStructATC(configuration) == UnmarshalMapIface(configuration.v)

(***************************************************************************)
(* Marshalling of the typed parts.                                         *)
(***************************************************************************)
\* OptionsConf, PacksConf, ATCConf: a nil map is written as null
MarshalMapIface(g) ==
  IF g.isNil THEN [err |-> NoErr, j |-> JNull] ELSE MarshalValue(GoMapIface(g.m))

MarshalSchedule(g) ==
  IF g.isNil THEN [err |-> NoErr, j |-> JNull]
  ELSE [err |-> NoErr, j |-> JObj([x \in DOMAIN g.m |-> MarshalScheduleQuery(g.m[x])])]

MarshalStrings(sl) == JArr([i \in DOMAIN sl.a |-> JStr(sl.a[i])])

DecoratorMembers(d) ==
  (IF Len(d.Load.a) > 0 THEN {"load"} ELSE {}) \cup
  (IF Len(d.Always.a) > 0 THEN {"always"} ELSE {}) \cup
  (IF d.Interval.k # "nil" THEN {"interval"} ELSE {})

MarshalDecorators(d) ==
  IF MarshalValue(d.Interval).err # NoErr
    THEN [err |-> MarshalValue(d.Interval).err, j |-> JEmpty]
    ELSE [err |-> NoErr,
          j |-> StructObj(DecoratorFields,
                          [x \in DecoratorMembers(d) |->
                             CASE x = "load" -> MarshalStrings(d.Load)
                               [] x = "always" -> MarshalStrings(d.Always)
                               [] OTHER -> MarshalValue(d.Interval).j])]

ConfKeys == {"options", "schedule", "packs", "decorators", "auto_table_construction"}

\* OsqueryConf: a struct of five members, none of them omitempty
MarshalConf(cnf) ==
  LET part == [x \in ConfKeys |->
                 CASE x = "options" -> MarshalMapIface(cnf.Options)
                   [] x = "schedule" -> MarshalSchedule(cnf.Schedule)
                   [] x = "packs" -> MarshalMapIface(cnf.Packs)
                   [] x = "decorators" -> MarshalDecorators(cnf.Decorators)
                   [] OTHER -> MarshalMapIface(cnf.ATC)]
  IN IF \E x \in ConfKeys : part[x].err # NoErr
       THEN [err |-> "json: unsupported type", j |-> JEmpty]
       ELSE [err |-> NoErr, j |-> StructObj(ConfFields, [x \in ConfKeys |-> part[x].j])]

\* what MarshalIndent has to lay out: scalars and empty containers look the
\* same with and without indent
Layout(j, indent) ==
  IF DOMAIN j.m = {} /\ DOMAIN j.a = {} THEN "flat"
  ELSE IF indent THEN "indented" ELSE "compact"

\* structured is the outcome of json.Marshal on the value handed in
GenSerializedConf(structured, indent) ==
  IF structured.err # NoErr
    THEN [err |-> structured.err, str |-> EmptyString]
    ELSE [err |-> NoErr, str |-> Raw(Layout(structured.j, indent), structured.j)]

(***************************************************************************)
(* The handlers, as functions of the TLSEnvironment row e they find in the *)
(* store.  f is the ordinal of the store call of the handler that the      *)
(* store fails (0: none fails).  Each yields the error returned and the    *)
(* row left behind.                                                        *)
(***************************************************************************)
Fragments == {"Options", "Schedule", "Packs", "Decorators", "ATC"}

Result(err, e) == [err |-> err, env |-> e]

PanicNilMap == "panic: assignment to entry in nil map"

\* DB.Model(..).Update(column, text): one column is written
Update(e, column, text) == [e EXCEPT ![column] = text]

\* DB.Model(..).Updates(TLSEnvironment{..}): gorm writes the non-zero
\* fields of the struct only
Updates(e, options, schedule, packs, decorators, atc) ==
  LET put(old, new) == IF new = EmptyString THEN old ELSE new
  IN [e EXCEPT !.Options = put(@, options), !.Schedule = put(@, schedule),
               !.Packs = put(@, packs), !.Decorators = put(@, decorators),
               !.ATC = put(@, atc)]

\* environment.UpdateOptions(name, options)
UpdateOptions(e, options) == Update(e, "Options", options)

\* environment.UpdateSchedule(name, schedule)
UpdateSchedule(e, schedule) == Update(e, "Schedule", schedule)

\* RefreshConfiguration without the check of the packs error
RefreshConfigurationUncheckedPacks(e, f) ==
  LET _options == GenStructOptions(e.Options)
      _schedule == GenStructSchedule(e.Schedule)
      _packs == GenStructPacks(e.Packs)
      _decorators == GenStructDecorators(e.Decorators)
      _ATC == GenStructATC(e.ATC)
      conf == [Options |-> _options.data, Schedule |-> _schedule.data,
               Packs |-> _packs.data, Decorators |-> _decorators.data,
               ATC |-> _ATC.data]
      indentedConf == GenSerializedConf(MarshalConf(conf), TRUE)
  IN CASE f = 1 -> Result("error structuring environment", e)
       [] _options.err # NoErr -> Result("error structuring options", e)
       [] _schedule.err # NoErr -> Result("error structuring schedule", e)
       [] _decorators.err # NoErr -> Result("error structuring decorators", e)
       [] _ATC.err # NoErr -> Result("error structuring ATC", e)
       [] indentedConf.err # NoErr -> Result("error serializing configuration", e)
       [] f = 2 -> Result("Update configuration", e)
       [] OTHER -> Result(NoErr, Update(e, "Configuration", indentedConf.str))

\* RefreshConfiguration decoding the ATC before the decorators
RefreshConfigurationATCFirst(e, f) ==
  LET _options == GenStructOptions(e.Options)
      _schedule == GenStructSchedule(e.Schedule)
      _packs == GenStructPacks(e.Packs)
      _decorators == GenStructDecorators(e.Decorators)
      _ATC == GenStructATC(e.ATC)
      conf == [Options |-> _options.data, Schedule |-> _schedule.data,
               Packs |-> _packs.data, Decorators |-> _decorators.data,
               ATC |-> _ATC.data]
      indentedConf == GenSerializedConf(MarshalConf(conf), TRUE)
  IN CASE f = 1 -> Result("error structuring environment", e)
       [] _options.err # NoErr -> Result("error structuring options", e)
       [] _schedule.err # NoErr -> Result("error structuring schedule", e)
       [] _packs.err # NoErr -> Result("error structuring packs", e)
       [] _ATC.err # NoErr -> Result("error structuring ATC", e)
       [] _decorators.err # NoErr -> Result("error structuring decorators", e)
       [] indentedConf.err # NoErr -> Result("error serializing configuration", e)
       [] f = 2 -> Result("Update configuration", e)
       [] OTHER -> Result(NoErr, Update(e, "Configuration", indentedConf.str))

\* RefreshConfiguration leaving a configuration that is already there
RefreshConfigurationKeepCached(e, f) ==
  LET _options == GenStructOptions(e.Options)
      _schedule == GenStructSchedule(e.Schedule)
      _packs == GenStructPacks(e.Packs)
      _decorators == GenStructDecorators(e.Decorators)
      _ATC == GenStructATC(e.ATC)
      conf == [Options |-> _options.data, Schedule |-> _schedule.data,
               Packs |-> _packs.data, Decorators |-> _decorators.data,
               ATC |-> _ATC.data]
      indentedConf == GenSerializedConf(MarshalConf(conf), TRUE)
  IN CASE f = 1 -> Result("error structuring environment", e)
       [] _options.err # NoErr -> Result("error structuring options", e)
       [] _schedule.err # NoErr -> Result("error structuring schedule", e)
       [] _packs.err # NoErr -> Result("error structuring packs", e)
       [] _decorators.err # NoErr -> Result("error structuring decorators", e)
       [] _ATC.err # NoErr -> Result("error structuring ATC", e)
       [] indentedConf.err # NoErr -> Result("error serializing configuration", e)
       [] f = 2 -> Result("Update configuration", e)
       [] e.Configuration # EmptyString -> Result(NoErr, e)
       [] OTHER -> Result(NoErr, Update(e, "Configuration", indentedConf.str))

RefreshConfiguration(e, f) ==
  LET _options == GenStructOptions(e.Options)
      _schedule == GenStructSchedule(e.Schedule)
      _packs == GenStructPacks(e.Packs)
      _decorators == GenStructDecorators(e.Decorators)
      _ATC == GenStructATC(e.ATC)
      conf == [Options |-> _options.data, Schedule |-> _schedule.data,
               Packs |-> _packs.data, Decorators |-> _decorators.data,
               ATC |-> _ATC.data]
      indentedConf == GenSerializedConf(MarshalConf(conf), TRUE)
  IN CASE f = 1 -> Result("error structuring environment", e)
       [] _options.err # NoErr -> Result("error structuring options", e)
       [] _schedule.err # NoErr -> Result("error structuring schedule", e)
       [] _packs.err # NoErr -> Result("error structuring packs", e)
       [] _decorators.err # NoErr -> Result("error structuring decorators", e)
       [] _ATC.err # NoErr -> Result("error structuring ATC", e)
       [] indentedConf.err # NoErr -> Result("error serializing configuration", e)
       [] f = 2 -> Result("Update configuration", e)
       [] OTHER -> Result(NoErr, Update(e, "Configuration", indentedConf.str))

\* UpdateConfiguration writing the five parts of the configuration too
UpdateConfigurationWithParts(e, cnf, f) ==
  LET indentedConf == GenSerializedConf(MarshalConf(cnf), TRUE)
      written == Updates(e, GenSerializedConf(MarshalMapIface(cnf.Options), TRUE).str,
                         GenSerializedConf(MarshalSchedule(cnf.Schedule), TRUE).str,
                         GenSerializedConf(MarshalMapIface(cnf.Packs), TRUE).str,
                         GenSerializedConf(MarshalDecorators(cnf.Decorators), TRUE).str,
                         GenSerializedConf(MarshalMapIface(cnf.ATC), TRUE).str)
  IN CASE indentedConf.err # NoErr -> Result("error serializing configuration", e)
       [] f = 1 -> Result("Update configuration", e)
       [] OTHER -> Result(NoErr, Update(written, "Configuration", indentedConf.str))

UpdateConfiguration(e, cnf, f) ==
  LET indentedConf == GenSerializedConf(MarshalConf(cnf), TRUE)
  IN CASE indentedConf.err # NoErr -> Result("error serializing configuration", e)
       [] f = 1 -> Result("Update configuration", e)
       [] OTHER -> Result(NoErr, Update(e, "Configuration", indentedConf.str))

\* UpdateConfigurationParts writing each part as soon as it is serialized
UpdateConfigurationPartsEager(e, cnf, f) ==
  LET indentedOptions == GenSerializedConf(MarshalMapIface(cnf.Options), TRUE)
      indentedSchedule == GenSerializedConf(MarshalSchedule(cnf.Schedule), TRUE)
      indentedPacks == GenSerializedConf(MarshalMapIface(cnf.Packs), TRUE)
      indentedDecorators == GenSerializedConf(MarshalDecorators(cnf.Decorators), TRUE)
      indentedATC == GenSerializedConf(MarshalMapIface(cnf.ATC), TRUE)
      e1 == Update(e, "Options", indentedOptions.str)
      e2 == Update(e1, "Schedule", indentedSchedule.str)
      e3 == Update(e2, "Packs", indentedPacks.str)
      e4 == Update(e3, "Decorators", indentedDecorators.str)
      e5 == Update(e4, "ATC", indentedATC.str)
  IN CASE indentedOptions.err # NoErr -> Result("error serializing options", e)
       [] f = 1 -> Result("Update parts", e)
       [] indentedSchedule.err # NoErr -> Result("error serializing schedule", e1)
       [] indentedPacks.err # NoErr -> Result("error serializing packs", e2)
       [] indentedDecorators.err # NoErr -> Result("error serializing decorators", e3)
       [] indentedATC.err # NoErr -> Result("error serializing ATC", e4)
       [] OTHER -> Result(NoErr, e5)

\* UpdateConfigurationParts with the ATC left out of the update
UpdateConfigurationPartsNoATC(e, cnf, f) ==
  LET indentedOptions == GenSerializedConf(MarshalMapIface(cnf.Options), TRUE)
      indentedSchedule == GenSerializedConf(MarshalSchedule(cnf.Schedule), TRUE)
      indentedPacks == GenSerializedConf(MarshalMapIface(cnf.Packs), TRUE)
      indentedDecorators == GenSerializedConf(MarshalDecorators(cnf.Decorators), TRUE)
      indentedATC == GenSerializedConf(MarshalMapIface(cnf.ATC), TRUE)
  IN CASE indentedOptions.err # NoErr -> Result("error serializing options", e)
       [] indentedSchedule.err # NoErr -> Result("error serializing schedule", e)
       [] indentedPacks.err # NoErr -> Result("error serializing packs", e)
       [] indentedDecorators.err # NoErr -> Result("error serializing decorators", e)
       [] indentedATC.err # NoErr -> Result("error serializing ATC", e)
       [] f = 1 -> Result("Update parts", e)
       [] OTHER -> Result(NoErr, Updates(e, indentedOptions.str, indentedSchedule.str,
                                         indentedPacks.str, indentedDecorators.str,
                                         EmptyString))

UpdateConfigurationParts(e, cnf, f) ==
  LET indentedOptions == GenSerializedConf(MarshalMapIface(cnf.Options), TRUE)
      indentedSchedule == GenSerializedConf(MarshalSchedule(cnf.Schedule), TRUE)
      indentedPacks == GenSerializedConf(MarshalMapIface(cnf.Packs), TRUE)
      indentedDecorators == GenSerializedConf(MarshalDecorators(cnf.Decorators), TRUE)
      indentedATC == GenSerializedConf(MarshalMapIface(cnf.ATC), TRUE)
  IN CASE indentedOptions.err # NoErr -> Result("error serializing options", e)
       [] indentedSchedule.err # NoErr -> Result("error serializing schedule", e)
       [] indentedPacks.err # NoErr -> Result("error serializing packs", e)
       [] indentedDecorators.err # NoErr -> Result("error serializing decorators", e)
       [] indentedATC.err # NoErr -> Result("error serializing ATC", e)
       [] f = 1 -> Result("Update parts", e)
       [] OTHER -> Result(NoErr, Updates(e, indentedOptions.str, indentedSchedule.str,
                                         indentedPacks.str, indentedDecorators.str,
                                         indentedATC.str))

\* SerializedOptions adding the option to a new map, not to the one decoded
SerializedOptionsFresh(e, option, value) ==
  LET _options == GenStructOptions(e.Options)
      added == MakeMap(MapSet(EmptyMap, option, value))
      indentedOptions == GenSerializedConf(MarshalMapIface(added), TRUE)
  IN CASE _options.err # NoErr ->
            [err |-> "error structuring options", str |-> EmptyString]
       [] _options.data.isNil -> [err |-> PanicNilMap, str |-> EmptyString]
       [] indentedOptions.err # NoErr ->
            [err |-> "error serializing options", str |-> EmptyString]
       [] OTHER -> indentedOptions

\* lines 249-259: the options text AddOptionsConf computes from the row e
\* it read
SerializedOptions(e, option, value) ==
  LET _options == GenStructOptions(e.Options)
      added == MakeMap(MapSet(_options.data.m, option, value))
      indentedOptions == GenSerializedConf(MarshalMapIface(added), TRUE)
  IN CASE _options.err # NoErr ->
            [err |-> "error structuring options", str |-> EmptyString]
       [] _options.data.isNil -> [err |-> PanicNilMap, str |-> EmptyString]
       [] indentedOptions.err # NoErr ->
            [err |-> "error serializing options", str |-> EmptyString]
       [] OTHER -> indentedOptions

\* AddOptionsConf refreshing the configuration from the row it read
AddOptionsConfStaleRefresh(e, option, value, f) ==
  LET indentedOptions == SerializedOptions(e, option, value)
      written == UpdateOptions(e, indentedOptions.str)
      composed == RefreshConfiguration(e, IF f > 2 THEN f - 2 ELSE 0)
      refreshed == Result(composed.err, Update(written, "Configuration",
                                               composed.env.Configuration))
  IN CASE f = 1 -> Result("error structuring environment", e)
       [] indentedOptions.err # NoErr -> Result(indentedOptions.err, e)
       [] f = 2 -> Result("error updating options", e)
       [] refreshed.err # NoErr -> Result("error refreshing configuration", refreshed.env)
       [] OTHER -> Result(NoErr, refreshed.env)

\* store calls: 1 Get, 2 UpdateOptions, 3 and 4 those of RefreshConfiguration
AddOptionsConf(e, option, value, f) ==
  LET indentedOptions == SerializedOptions(e, option, value)
      written == UpdateOptions(e, indentedOptions.str)
      refreshed == RefreshConfiguration(written, IF f > 2 THEN f - 2 ELSE 0)
  IN CASE f = 1 -> Result("error structuring environment", e)
       [] indentedOptions.err # NoErr -> Result(indentedOptions.err, e)
       [] f = 2 -> Result("error updating options", e)
       [] refreshed.err # NoErr -> Result("error refreshing configuration", refreshed.env)
       [] OTHER -> Result(NoErr, refreshed.env)

\* SerializedSchedule keeping the fields of the entry it replaces that the
\* new entry leaves at their zero value
SerializedScheduleMerge(e, qName, query) ==
  LET _schedule == GenStructSchedule(e.Schedule)
      old == IF qName \in DOMAIN _schedule.data.m THEN _schedule.data.m[qName]
             ELSE ZeroQuery
      merged == [query EXCEPT !.Snapshot = @ \/ old.Snapshot,
                              !.Removed = @ \/ old.Removed,
                              !.Denylist = @ \/ old.Denylist]
      added == MakeMap(MapSet(_schedule.data.m, qName, merged))
      indentedSchedule == GenSerializedConf(MarshalSchedule(added), TRUE)
  IN CASE _schedule.err # NoErr ->
            [err |-> "error structuring schedule", str |-> EmptyString]
       [] _schedule.data.isNil -> [err |-> PanicNilMap, str |-> EmptyString]
       [] indentedSchedule.err # NoErr ->
            [err |-> "error serializing schedule", str |-> EmptyString]
       [] OTHER -> indentedSchedule

\* lines 278-288: the schedule text AddScheduleConfQuery computes from the
\* row e it read
SerializedSchedule(e, qName, query) ==
  LET _schedule == GenStructSchedule(e.Schedule)
      added == MakeMap(MapSet(_schedule.data.m, qName, query))
      indentedSchedule == GenSerializedConf(MarshalSchedule(added), TRUE)
  IN CASE _schedule.err # NoErr ->
            [err |-> "error structuring schedule", str |-> EmptyString]
       [] _schedule.data.isNil -> [err |-> PanicNilMap, str |-> EmptyString]
       [] indentedSchedule.err # NoErr ->
            [err |-> "error serializing schedule", str |-> EmptyString]
       [] OTHER -> indentedSchedule

\* store calls: 1 Get, 2 UpdateSchedule, 3 and 4 those of RefreshConfiguration
AddScheduleConfQuery(e, qName, query, f) ==
  LET indentedSchedule == SerializedSchedule(e, qName, query)
      written == UpdateSchedule(e, indentedSchedule.str)
      refreshed == RefreshConfiguration(written, IF f > 2 THEN f - 2 ELSE 0)
  IN CASE f = 1 -> Result("error structuring environment", e)
       [] indentedSchedule.err # NoErr -> Result(indentedSchedule.err, e)
       [] f = 2 -> Result("error updating schedule", e)
       [] refreshed.err # NoErr -> Result("error refreshing configuration", refreshed.env)
       [] OTHER -> Result(NoErr, refreshed.env)

(***************************************************************************)
(* The inputs the callers hand in.                                         *)
(***************************************************************************)
OptionValues == {GoString("X"), GoString("Y"), GoChan}

Entries ==
  {[ZeroQuery EXCEPT !.Query = "SELECT * FROM processes;",
                     !.Interval = 60 * i, !.Snapshot = b] :
     i \in 1..MaxInterval, b \in BOOLEAN}

\* the five decorator queries of GenEmptyConfiguration
DefaultAlways ==
  GoSlice(FALSE, <<"DecoratorUsers", "DecoratorHostname", "DecoratorLoggedInUser",
                   "DecoratorOsqueryVersionHash", "DecoratorMD5Process">>)

\* the configuration GenEmptyConfiguration builds
EmptyConf ==
  [Options |-> MakeMap(EmptyMap), Schedule |-> MakeMap(EmptyMap),
   Packs |-> MakeMap(EmptyMap),
   Decorators |-> [Load |-> NilSlice, Always |-> DefaultAlways, Interval |-> GoNil],
   ATC |-> MakeMap(EmptyMap)]

\* an inlined pack: PackEntry{Queries: {"q1": ..}, Platform: "linux",
\* Discovery: [..]}
LinuxPack ==
  GoPackEntry(GoMapIface(MapSet(EmptyMap, "q1",
                 GoScheduleQuery([ZeroQuery EXCEPT !.Query = "SELECT * FROM users;",
                                                   !.Interval = 3600]))),
              "linux", 0, "",
              GoSliceIface(<<GoString("SELECT pid FROM processes WHERE name = 'sshd';")>>))

\* GenEmptyConfiguration with the maps of the configuration left nil
GenEmptyConfigurationNilMaps(indent) ==
  LET cnf == [ZeroConf EXCEPT !.Decorators.Always = DefaultAlways]
      conf == GenSerializedConf(MarshalConf(cnf), indent)
  IN IF conf.err # NoErr THEN EmptyString ELSE conf.str

GenEmptyConfiguration(indent) ==
  LET cnf == EmptyConf
      conf == GenSerializedConf(MarshalConf(cnf), indent)
  IN IF conf.err # NoErr THEN EmptyString ELSE conf.str

FullConf ==
  [Options |-> MakeMap(MapSet(EmptyMap, "k2", GoString("Z"))),
   Schedule |-> MakeMap(MapSet(MapSet(EmptyMap, "q1",
                   [ZeroQuery EXCEPT !.Query = "SELECT * FROM processes;",
                                     !.Interval = 60]),
                   "q2", [ZeroQuery EXCEPT !.Query = "SELECT * FROM users;",
                                           !.Interval = 3600, !.Snapshot = TRUE])),
   Packs |-> MakeMap(MapSet(MapSet(EmptyMap, "p1", GoString("packs/p1.conf")),
                            "p2", LinuxPack)),
   Decorators |-> [Load |-> GoSlice(FALSE, <<"SELECT uuid FROM system_info;">>),
                   Always |-> DefaultAlways,
                   Interval |-> GoMapIface(MapSet(EmptyMap, "3600",
                                  GoSliceIface(<<GoString("SELECT 1;")>>)))],
   ATC |-> MakeMap(MapSet(EmptyMap, "t1",
              GoMapIface(MapSet(EmptyMap, "path", GoString("/db")))))]

\* FullConf with a value in one part that encoding/json cannot marshal
Unsupported(part) ==
  CASE part = "Decorators" -> [FullConf EXCEPT !.Decorators.Interval = GoChan]
    [] OTHER -> [FullConf EXCEPT ![part] = MakeMap(MapSet(@.m, "bad", GoChan))]

Confs ==
  {ZeroConf, FullConf} \cup
  {Unsupported(part) : part \in {"Options", "Packs", "Decorators", "ATC"}}

EmptyObject == Raw("flat", JObj(EmptyMap))
\* {"q1": {"query": 1}} : a schedule entry whose query is not a string
Mismatch ==
  Raw("indented", JObj(MapSet(EmptyMap, "q1", JObj(MapSet(EmptyMap, "query", JNum(1))))))

\* texts written straight to a fragment column
RawOptions == {EmptyObject}
RawSchedule == {EmptyObject, Mismatch}

(***************************************************************************)
(* State.                                                                  *)
(***************************************************************************)
VARIABLES
  env,   \* the TLSEnvironment row of the environment in the store
  ret,   \* the last call made: its name, arguments and the error returned
  proc,  \* the calls in progress when callers run concurrently
  dec    \* the decoder under test: kind, input and outcome

vars == <<env, ret, proc, dec>>

\* a provisioned environment: every column the empty string
NewEnvironment ==
  [Options |-> EmptyString, Schedule |-> EmptyString, Packs |-> EmptyString,
   Decorators |-> EmptyString, ATC |-> EmptyString, Configuration |-> EmptyString]

\* a call: its name and arguments, the row it found (before), the store
\* call that failed (f, 0 if none) and the error it returned
Call(op, option, value, qName, query, cnf, before, f, err) ==
  [op |-> op, option |-> option, value |-> value, qName |-> qName,
   query |-> query, cnf |-> cnf, before |-> before, f |-> f, err |-> err]

NoCall == Call("none", "", GoNil, "", ZeroQuery, ZeroConf, NewEnvironment, 0, NoErr)

NoProc == [p \in {} |-> p]
\* the codec under test: src tells what it starts from (a "text" to decode,
\* a "value" to encode and decode again, or the "empty" configuration to
\* generate and decode), pc where it is
NoDec ==
  [kind |-> "none", src |-> "text", pc |-> "text", value |-> NilMap,
   indent |-> FALSE, raw |-> EmptyString, done |-> FALSE, err |-> NoErr,
   data |-> NilMap]

Init ==
  /\ env = NewEnvironment
  /\ ret = NoCall
  /\ proc = NoProc
  /\ dec = NoDec

(***************************************************************************)
(* One caller at a time: every handler runs to completion, and ret holds   *)
(* the call until the caller has taken its outcome.                        *)
(***************************************************************************)
CallRefreshConfiguration ==
  \E f \in 0..2 :
    /\ ret = NoCall
    /\ LET r == RefreshConfiguration(env, f)
       IN /\ env' = r.env
          /\ ret' = Call("RefreshConfiguration", "", GoNil, "", ZeroQuery, ZeroConf, env, f, r.err)
          /\ UNCHANGED <<proc, dec>>

CallUpdateConfiguration ==
  \E cnf \in Confs, f \in 0..1 :
    /\ ret = NoCall
    /\ LET r == UpdateConfiguration(env, cnf, f)
       IN /\ env' = r.env
          /\ ret' = Call("UpdateConfiguration", "", GoNil, "", ZeroQuery, cnf, env, f, r.err)
          /\ UNCHANGED <<proc, dec>>

CallUpdateConfigurationParts ==
  \E cnf \in Confs, f \in 0..1 :
    /\ ret = NoCall
    /\ LET r == UpdateConfigurationParts(env, cnf, f)
       IN /\ env' = r.env
          /\ ret' = Call("UpdateConfigurationParts", "", GoNil, "", ZeroQuery, cnf, env, f, r.err)
          /\ UNCHANGED <<proc, dec>>

CallAddOptionsConf ==
  \E option \in OptionKeys, value \in OptionValues, f \in 0..4 :
    /\ ret = NoCall
    /\ LET r == AddOptionsConf(env, option, value, f)
       IN /\ env' = r.env
          /\ ret' = Call("AddOptionsConf", option, value, "", ZeroQuery, ZeroConf, env, f, r.err)
          /\ UNCHANGED <<proc, dec>>

CallAddScheduleConfQuery ==
  \E qName \in QueryNames, query \in Entries, f \in 0..4 :
    /\ ret = NoCall
    /\ LET r == AddScheduleConfQuery(env, qName, query, f)
       IN /\ env' = r.env
          /\ ret' = Call("AddScheduleConfQuery", "", GoNil, qName, query, ZeroConf, env, f, r.err)
          /\ UNCHANGED <<proc, dec>>

\* a fragment column replaced wholesale through the store
CallUpdateOptions ==
  \E options \in RawOptions :
    /\ ret = NoCall
    /\ env' = UpdateOptions(env, options)
    /\ ret' = Call("UpdateOptions", "", GoNil, "", ZeroQuery, ZeroConf, env, 0, NoErr)
    /\ UNCHANGED <<proc, dec>>

CallUpdateSchedule ==
  \E schedule \in RawSchedule :
    /\ ret = NoCall
    /\ env' = UpdateSchedule(env, schedule)
    /\ ret' = Call("UpdateSchedule", "", GoNil, "", ZeroQuery, ZeroConf, env, 0, NoErr)
    /\ UNCHANGED <<proc, dec>>

\* the caller takes the error returned; the next call can be made
Return ==
  /\ ret # NoCall
  /\ ret' = NoCall
  /\ UNCHANGED <<env, proc, dec>>

Next ==
  \/ CallRefreshConfiguration
  \/ CallUpdateConfiguration
  \/ CallUpdateConfigurationParts
  \/ CallAddOptionsConf
  \/ CallAddScheduleConfQuery
  \/ CallUpdateOptions
  \/ CallUpdateSchedule
  \/ Return

Spec == Init /\ [][Next]_vars

(***************************************************************************)
(* The decoders on their own: a fragment kind and a text are drawn, and    *)
(* the GenStruct function of that kind is applied to the text.             *)
(***************************************************************************)
GenStruct(kind, configuration) ==
  CASE kind = "Options" -> GenStructOptions(configuration)
    [] kind = "Schedule" -> GenStructSchedule(configuration)
    [] kind = "Packs" -> GenStructPacks(configuration)
    [] kind = "Decorators" -> GenStructDecorators(configuration)
    [] kind = "ATC" -> GenStructATC(configuration)
    [] kind = "Conf" -> GenStructConf(configuration)

\* json.Marshal on a value of the kind, as GenSerializedConf is handed it
Marshal(kind, structured) ==
  CASE kind \in {"Options", "Packs", "ATC"} -> MarshalMapIface(structured)
    [] kind = "Schedule" -> MarshalSchedule(structured)
    [] kind = "Decorators" -> MarshalDecorators(structured)
    [] kind = "Conf" -> MarshalConf(structured)

\* the value a freshly declared variable of the kind holds
ZeroOf(kind) ==
  CASE kind = "Decorators" -> ZeroDecorators
    [] kind = "Conf" -> ZeroConf
    [] OTHER -> NilMap

Indented(j) == Raw(Layout(j, TRUE), j)

\* texts of every top-level shape, and objects that fit some kinds only
RawSamples ==
  {EmptyString, Garbage, EmptyObject, Mismatch,
   Indented(JNull), Indented(JTrue), Indented(JFalse), Indented(JNum(1)),
   Indented(JStr("x")), Indented(JArr(<<>>)), Indented(JArr(<<JStr("x")>>)),
   Indented(JObj(MapSet(EmptyMap, "k1", JStr("X")))),
   Indented(JObj(MapSet(EmptyMap, "q1", MarshalScheduleQuery(
      [ZeroQuery EXCEPT !.Query = "SELECT * FROM processes;", !.Interval = 60])))),
   Indented(JObj(MapSet(EmptyMap, "always", JArr(<<JStr("SELECT 1;")>>)))),
   Indented(JObj(MapSet(EmptyMap, "load", JStr("SELECT 1;"))))}

\* values held in an interface{}: every kind encoding/json tells apart
ValueSamples ==
  {GoNil, GoString(""), GoString("X"), GoBool(TRUE), GoBool(FALSE), GoFloat(1),
   GoInt(1), GoMapIface(EmptyMap), GoMapIface(MapSet(EmptyMap, "path", GoString("/db"))),
   GoSliceIface(<<>>), GoSliceIface(<<GoString("a"), GoFloat(2)>>), GoChan,
   LinuxPack, GoPackEntry(GoNil, "", 0, "", GoNil)}

\* schedule entries: every field at its zero value and at another one
EntrySamples ==
  {[Query |-> q, Interval |-> i, Removed |-> r, Snapshot |-> sn, Platform |-> pl,
    Version |-> v, Shard |-> sh, Denylist |-> d] :
     q \in {"", "SELECT * FROM processes;"}, i \in {0, 60}, r \in BOOLEAN,
     sn \in BOOLEAN, pl \in {"", "linux"}, v \in {"", "5.0.1"}, sh \in {0, 50},
     d \in BOOLEAN}

DecoratorSamples ==
  {[Load |-> ld, Always |-> al, Interval |-> iv] :
     ld \in {NilSlice, GoSlice(FALSE, <<>>), GoSlice(FALSE, <<"SELECT uuid FROM system_info;">>)},
     al \in {NilSlice, DefaultAlways},
     iv \in {GoNil, GoMapIface(EmptyMap), FullConf.Decorators.Interval, GoChan}}

\* the values of a kind handed to GenSerializedConf
ValuesOf(kind) ==
  CASE kind \in {"Options", "Packs", "ATC"} ->
         {NilMap, MakeMap(EmptyMap)} \cup
         {MakeMap(MapSet(EmptyMap, "k1", v)) : v \in ValueSamples}
    [] kind = "Schedule" ->
         {NilMap, MakeMap(EmptyMap)} \cup
         {MakeMap(MapSet(EmptyMap, "q1", q)) : q \in EntrySamples}
    [] kind = "Decorators" -> DecoratorSamples
    [] kind = "Conf" -> Confs \cup {EmptyConf}

InitCodec ==
  /\ env = NewEnvironment
  /\ ret = NoCall
  /\ proc = NoProc
  /\ \/ dec \in {[NoDec EXCEPT !.kind = kind, !.raw = raw] :
                   kind \in Fragments, raw \in RawSamples}
     \/ \E kind \in Fragments \cup {"Conf"} :
          dec \in {[NoDec EXCEPT !.kind = kind, !.src = "value", !.pc = "value",
                                 !.value = structured, !.indent = indent] :
                     structured \in ValuesOf(kind), indent \in BOOLEAN}
     \/ dec \in {[NoDec EXCEPT !.kind = "Conf", !.src = "empty", !.pc = "empty",
                                !.indent = indent] : indent \in BOOLEAN}

\* GenSerializedConf(structured, indent) on the value drawn
Encode ==
  /\ dec.pc = "value"
  /\ LET r == GenSerializedConf(Marshal(dec.kind, dec.value), dec.indent)
     IN dec' = IF r.err # NoErr
                 THEN [dec EXCEPT !.pc = "failed", !.err = r.err]
                 ELSE [dec EXCEPT !.pc = "text", !.raw = r.str]
  /\ UNCHANGED <<env, ret, proc>>

\* GenEmptyConfiguration(indent)
Generate ==
  /\ dec.pc = "empty"
  /\ dec' = [dec EXCEPT !.pc = "text", !.raw = GenEmptyConfiguration(dec.indent)]
  /\ UNCHANGED <<env, ret, proc>>

\* the GenStruct function of the kind on the text
Decode ==
  /\ dec.pc = "text"
  /\ ~dec.done
  /\ LET r == GenStruct(dec.kind, dec.raw)
     IN dec' = [dec EXCEPT !.pc = "done", !.done = TRUE, !.err = r.err, !.data = r.data]
  /\ UNCHANGED <<env, ret, proc>>

NextCodec ==
  \/ Encode
  \/ Generate
  \/ Decode

SpecCodec == InitCodec /\ [][NextCodec]_vars

\* C1 (as claimed): decoding an empty text succeeds, for each of the five
\* kinds, and yields the empty instance of the kind.
C1_EmptyTextDecodes ==
  (dec.done /\ dec.raw = EmptyString) =>
     /\ dec.err = NoErr
     /\ \/ dec.data = ZeroOf(dec.kind)
        \/ (dec.kind # "Decorators" /\ dec.data = MakeMap(EmptyMap))

\* C10 (as claimed): for every kind, a text that is not JSON, or whose
\* top-level value is an array, a string, a number, a boolean or null, fails
\* to decode.
C10_WrongShapeRejected ==
  (dec.done /\ dec.raw.v.k \in {"invalid", "array", "string", "number",
                                "true", "false", "null"})
     => dec.err # NoErr

\* C12: GenEmptyConfiguration, indented or not, returns a text that decodes
\* without error to a configuration whose decorators hold, under always,
\* the five default decorator queries in their order (users, hostname,
\* logged-in user, osquery version hash, MD5 of the process), with load and
\* interval absent, and whose options, schedule, packs and
\* auto_table_construction are empty objects.
C12_EmptyConfigurationDecodes ==
  (dec.src = "empty" /\ dec.done) =>
    /\ dec.err = NoErr
    /\ dec.data.Decorators.Always =
         GoSlice(FALSE, <<"DecoratorUsers", "DecoratorHostname", "DecoratorLoggedInUser",
                          "DecoratorOsqueryVersionHash", "DecoratorMD5Process">>)
    /\ dec.data.Decorators.Load = NilSlice
    /\ dec.data.Decorators.Interval = GoNil
    /\ DOMAIN dec.raw.v.m["decorators"].m = {"always"}
    /\ \A x \in ConfKeys \ {"decorators"} : dec.raw.v.m[x] = JObj(EmptyMap)
    /\ dec.data.Options = MakeMap(EmptyMap)
    /\ dec.data.Schedule = MakeMap(EmptyMap)
    /\ dec.data.Packs = MakeMap(EmptyMap)
    /\ dec.data.ATC = MakeMap(EmptyMap)

\* the compact empty configuration has been generated and decoded
C12_Witness ==
  /\ dec.src = "empty"
  /\ dec.done
  /\ ~dec.indent
  /\ dec.raw.ws = "compact"
  /\ Len(dec.data.Decorators.Always.a) = 5

\* C13 (as claimed): for every value of every kind, and of the whole
\* configuration, that encodes without error, indented or not, decoding the
\* text gives no error and a value equal to the one encoded.
C13_RoundTrip ==
  (dec.src = "value" /\ dec.done) =>
    (dec.err = NoErr /\ dec.data = dec.value)

\* C14 (as claimed): in the text a schedule is encoded as, every entry has
\* the members query and interval, whatever their values, and has each of
\* removed, snapshot, platform, version, shard and denylist exactly when
\* the field is not at its zero value; no member is null, false, 0 or "".
C14_EntryMembers ==
  (dec.src = "value" /\ dec.kind = "Schedule" /\ dec.pc \in {"text", "done"}
     /\ ~dec.value.isNil) =>
    \A x \in DOMAIN dec.value.m :
      LET q == dec.value.m[x]
          o == dec.raw.v.m[x].m
      IN /\ "query" \in DOMAIN o
         /\ "interval" \in DOMAIN o
         /\ "removed" \in DOMAIN o <=> q.Removed
         /\ "snapshot" \in DOMAIN o <=> q.Snapshot
         /\ "platform" \in DOMAIN o <=> q.Platform # ""
         /\ "version" \in DOMAIN o <=> q.Version # ""
         /\ "shard" \in DOMAIN o <=> q.Shard # 0
         /\ "denylist" \in DOMAIN o <=> q.Denylist
         /\ \A y \in DOMAIN o \ {"query", "interval"} :
              o[y] \notin {JNull, JFalse, JNum(0), JStr("")}

(***************************************************************************)
(* RefreshConfiguration on rows of every mix of good and bad fragments:    *)
(* the columns are text columns of the store and hold whatever was written *)
(* to them.                                                                *)
(***************************************************************************)
RowSamples == {EmptyString, Garbage, EmptyObject, Mismatch}

\* a composed configuration written by an earlier call
StaleConfiguration == GenSerializedConf(MarshalConf(FullConf), TRUE).str

InitRefresh ==
  /\ env \in {[Options |-> o, Schedule |-> s, Packs |-> p, Decorators |-> d,
               ATC |-> a, Configuration |-> c] :
                o \in RowSamples, s \in RowSamples, p \in RowSamples,
                d \in RowSamples, a \in RowSamples,
                c \in {EmptyString, StaleConfiguration}}
  /\ ret = NoCall
  /\ proc = NoProc
  /\ dec = NoDec

NextRefresh ==
  \/ CallRefreshConfiguration
  \/ Return

SpecRefresh == InitRefresh /\ [][NextRefresh]_vars

\* the fragment column of row e decodes as its kind
Decodes(e, kind) == GenStruct(kind, e[kind]).err = NoErr

\* the order in which RefreshConfiguration decodes the fragments
Order == <<"Options", "Schedule", "Packs", "Decorators", "ATC">>

StructErr ==
  [kind \in Fragments |->
     CASE kind = "Options" -> "error structuring options"
       [] kind = "Schedule" -> "error structuring schedule"
       [] kind = "Packs" -> "error structuring packs"
       [] kind = "Decorators" -> "error structuring decorators"
       [] kind = "ATC" -> "error structuring ATC"]

\* the first fragment of row e, in Order, that does not decode
FirstFailing(e) ==
  Order[CHOOSE i \in 1..5 :
          /\ ~Decodes(e, Order[i])
          /\ \A h \in 1..(i - 1) : Decodes(e, Order[h])]

\* C2: a refresh of a row in which some fragment does not decode returns
\* an error and writes nothing: the composed configuration and the five
\* fragments are what they were before the call.
C2_RefreshAllOrNothing ==
  (ret.op = "RefreshConfiguration" /\ \E kind \in Fragments : ~Decodes(ret.before, kind))
     => (ret.err # NoErr /\ env = ret.before)

\* a refresh has failed on the schedule and an earlier composed
\* configuration is still in place
C2_Witness ==
  /\ ret.op = "RefreshConfiguration"
  /\ ret.err = "error structuring schedule"
  /\ env.Configuration = StaleConfiguration
  /\ Decodes(env, "Options")

\* C9: when a refresh fails on composing, the error names the first
\* fragment, in the order options, schedule, packs, decorators, ATC, that
\* does not decode; and an error naming a fragment is only returned when
\* that fragment does not decode.
C9_ErrorNamesFirstFailing ==
  ret.op = "RefreshConfiguration" =>
    /\ ((\E kind \in Fragments : ~Decodes(ret.before, kind)) /\ ret.f # 1)
         => ret.err = StructErr[FirstFailing(ret.before)]
    /\ \A kind \in Fragments :
         ret.err = StructErr[kind] => ~Decodes(ret.before, kind)

\* decorators and ATC are both malformed, the fragments before them are
\* not, and the refresh has named the decorators
C9_Witness ==
  /\ ret.op = "RefreshConfiguration"
  /\ ret.err = "error structuring decorators"
  /\ ~Decodes(env, "ATC")
  /\ env.Schedule = EmptyObject

(***************************************************************************)
(* Properties of the handlers, one caller at a time (Spec).                *)
(***************************************************************************)
\* the pretty encoding of the composition of the five fragments of row e
Composed(e) ==
  GenSerializedConf(
    MarshalConf([Options |-> GenStructOptions(e.Options).data,
                 Schedule |-> GenStructSchedule(e.Schedule).data,
                 Packs |-> GenStructPacks(e.Packs).data,
                 Decorators |-> GenStructDecorators(e.Decorators).data,
                 ATC |-> GenStructATC(e.ATC).data]), TRUE).str

\* the outcome of serializing one part of cnf, pretty
PartSerialized(cnf, kind) ==
  CASE kind = "Options" -> GenSerializedConf(MarshalMapIface(cnf.Options), TRUE)
    [] kind = "Schedule" -> GenSerializedConf(MarshalSchedule(cnf.Schedule), TRUE)
    [] kind = "Packs" -> GenSerializedConf(MarshalMapIface(cnf.Packs), TRUE)
    [] kind = "Decorators" -> GenSerializedConf(MarshalDecorators(cnf.Decorators), TRUE)
    [] kind = "ATC" -> GenSerializedConf(MarshalMapIface(cnf.ATC), TRUE)

FragmentsUnchanged == \A kind \in Fragments : env[kind] = ret.before[kind]

\* C3: UpdateConfigurationParts serializes all five parts before it writes:
\* when one of them does not serialize it returns an error and none of the
\* five fragment columns is modified; no call leaves only some of them
\* written.
C3_PartsEncodeBeforeWrite ==
  ret.op = "UpdateConfigurationParts" =>
    /\ (\E kind \in Fragments : PartSerialized(ret.cnf, kind).err # NoErr)
         => (ret.err # NoErr /\ FragmentsUnchanged)
    /\ \/ FragmentsUnchanged
       \/ \A kind \in Fragments : env[kind] = PartSerialized(ret.cnf, kind).str

\* the ATC of the configuration handed in did not serialize, and the options
\* stored before, which the call would have replaced, are still there
C3_Witness ==
  /\ ret.op = "UpdateConfigurationParts"
  /\ ret.err = "error serializing ATC"
  /\ env.Options # EmptyString
  /\ env.Options # PartSerialized(ret.cnf, "Options").str

\* C4: when AddOptionsConf or AddScheduleConfQuery returns no error, the
\* configuration column is the pretty encoding of the composition of the
\* five fragments as stored, and it holds the option or query just added.
C4_MutationRecomposes ==
  (ret.op \in {"AddOptionsConf", "AddScheduleConfQuery"} /\ ret.err = NoErr) =>
    /\ env.Configuration = Composed(env)
    /\ LET conf == GenStructConf(env.Configuration)
       IN /\ conf.err = NoErr
          /\ ret.op = "AddOptionsConf" =>
               /\ ret.option \in DOMAIN conf.data.Options.m
               /\ conf.data.Options.m[ret.option] = ret.value
          /\ ret.op = "AddScheduleConfQuery" =>
               /\ ret.qName \in DOMAIN conf.data.Schedule.m
               /\ conf.data.Schedule.m[ret.qName] = ret.query

\* an option was added to a row that had a composed configuration and a
\* scheduled query: the new configuration holds the query too
C4_Witness ==
  /\ ret.op = "AddOptionsConf"
  /\ ret.err = NoErr
  /\ ret.before.Configuration # EmptyString
  /\ ret.before.Configuration # env.Configuration
  /\ "q1" \in DOMAIN GenStructConf(env.Configuration).data.Schedule.m

C6_AddOptionOverwrites ==
  (/\ ret.op = "AddOptionsConf"
   /\ ret.f = 0
   /\ MarshalValue(ret.value).err = NoErr
   /\ \A kind \in Fragments : Decodes(ret.before, kind)) =>
    /\ ret.err = NoErr
    /\ LET stored == GenStructOptions(env.Options)
           conf == GenStructConf(env.Configuration)
       IN /\ stored.err = NoErr /\ conf.err = NoErr
          /\ ret.option \in DOMAIN stored.data.m
          /\ stored.data.m[ret.option] = ret.value
          /\ ret.option \in DOMAIN conf.data.Options.m
          /\ conf.data.Options.m[ret.option] = ret.value

\* C7: when AddScheduleConfQuery returns no error, the stored and the
\* composed schedule hold, under the query name, exactly the entry handed
\* in: its query text and interval, and no field of an entry it replaces.
C7_ScheduleEntryReplaced ==
  (ret.op = "AddScheduleConfQuery" /\ ret.err = NoErr) =>
    LET stored == GenStructSchedule(env.Schedule)
        conf == GenStructConf(env.Configuration)
    IN /\ stored.err = NoErr /\ conf.err = NoErr
       /\ ret.qName \in DOMAIN stored.data.m
       /\ stored.data.m[ret.qName] = ret.query
       /\ ret.qName \in DOMAIN conf.data.Schedule.m
       /\ conf.data.Schedule.m[ret.qName] = ret.query

\* an entry with snapshot set has been replaced by one without
C7_Witness ==
  /\ ret.op = "AddScheduleConfQuery"
  /\ ret.err = NoErr
  /\ LET old == GenStructSchedule(ret.before.Schedule)
     IN /\ old.err = NoErr
        /\ ret.qName \in DOMAIN old.data.m
        /\ old.data.m[ret.qName].Snapshot
  /\ ~ret.query.Snapshot
  /\ ret.query.Interval = 60

(***************************************************************************)
(* Concurrent callers (SpecConc).  Nothing in the handlers serializes      *)
(* them: a handler is a sequence of store calls, and the store calls of    *)
(* the callers interleave.  Each caller makes one call; between two store  *)
(* calls it holds the row its last Get returned.  The store serves every   *)
(* call.                                                                   *)
(***************************************************************************)
Procs == 1..NumProcs

IdleProc ==
  [pc |-> "idle", op |-> "none", option |-> "", value |-> GoNil, qName |-> "",
   query |-> ZeroQuery, read |-> NewEnvironment, reread |-> NewEnvironment,
   err |-> NoErr]

\* the calls the concurrent callers choose from
ConcCalls ==
  {[IdleProc EXCEPT !.op = "AddOptionsConf", !.option = k, !.value = GoString("X")] :
     k \in {"k1", "k2"}} \cup
  {[IdleProc EXCEPT !.op = "AddScheduleConfQuery", !.qName = "q1",
                    !.query = [ZeroQuery EXCEPT !.Query = "SELECT * FROM processes;",
                                                !.Interval = 60]],
   [IdleProc EXCEPT !.op = "RefreshConfiguration"]}

\* an environment seeded with the empty configuration and refreshed
BaseRow ==
  RefreshConfiguration(UpdateConfigurationParts(NewEnvironment, EmptyConf, 0).env, 0).env

\* the same after a first option has been added
OneOptionRow == AddOptionsConf(BaseRow, "k0", GoString("W"), 0).env

InitConc ==
  /\ env \in {BaseRow, OneOptionRow}
  /\ ret = NoCall
  /\ proc = [p \in Procs |-> IdleProc]
  /\ dec = NoDec

\* caller p enters a handler
Invoke(p) ==
  /\ proc[p].pc = "idle"
  /\ \E c \in ConcCalls :
       proc' = [proc EXCEPT ![p] =
                  [c EXCEPT !.pc = IF c.op = "RefreshConfiguration"
                                     THEN "RefreshGet" ELSE "Get"]]
  /\ UNCHANGED <<env, ret, dec>>

\* environment.Get(name) of AddOptionsConf and AddScheduleConfQuery
Get(p) ==
  /\ proc[p].pc = "Get"
  /\ proc' = [proc EXCEPT ![p].read = env, ![p].pc = "Update"]
  /\ UNCHANGED <<env, ret, dec>>

\* the fragment computed from the row read, not the row in the store
UpdateFragmentAtomic(p) ==
  /\ proc[p].pc = "Update"
  /\ LET c == proc[p]
         text == IF c.op = "AddOptionsConf"
                   THEN SerializedOptions(env, c.option, c.value)
                   ELSE SerializedSchedule(env, c.qName, c.query)
     IN IF text.err # NoErr
          THEN /\ proc' = [proc EXCEPT ![p].err = text.err, ![p].pc = "done"]
               /\ UNCHANGED env
          ELSE /\ env' = IF c.op = "AddOptionsConf"
                           THEN UpdateOptions(env, text.str)
                           ELSE UpdateSchedule(env, text.str)
               /\ proc' = [proc EXCEPT ![p].pc = "RefreshGet"]
  /\ UNCHANGED <<ret, dec>>

\* the row p read written back whole, with the fragment replaced
UpdateFragmentWholeRow(p) ==
  /\ proc[p].pc = "Update"
  /\ LET c == proc[p]
         text == IF c.op = "AddOptionsConf"
                   THEN SerializedOptions(c.read, c.option, c.value)
                   ELSE SerializedSchedule(c.read, c.qName, c.query)
     IN IF text.err # NoErr
          THEN /\ proc' = [proc EXCEPT ![p].err = text.err, ![p].pc = "done"]
               /\ UNCHANGED env
          ELSE /\ env' = IF c.op = "AddOptionsConf"
                           THEN UpdateOptions(c.read, text.str)
                           ELSE UpdateSchedule(c.read, text.str)
               /\ proc' = [proc EXCEPT ![p].pc = "RefreshGet"]
  /\ UNCHANGED <<ret, dec>>

\* decode, add, serialize, and UpdateOptions or UpdateSchedule: the fragment
\* is computed from the row p read and written to its column
UpdateFragment(p) ==
  /\ proc[p].pc = "Update"
  /\ LET c == proc[p]
         text == IF c.op = "AddOptionsConf"
                   THEN SerializedOptions(c.read, c.option, c.value)
                   ELSE SerializedSchedule(c.read, c.qName, c.query)
     IN IF text.err # NoErr
          THEN /\ proc' = [proc EXCEPT ![p].err = text.err, ![p].pc = "done"]
               /\ UNCHANGED env
          ELSE /\ env' = IF c.op = "AddOptionsConf"
                           THEN UpdateOptions(env, text.str)
                           ELSE UpdateSchedule(env, text.str)
               /\ proc' = [proc EXCEPT ![p].pc = "RefreshGet"]
  /\ UNCHANGED <<ret, dec>>

\* environment.Get(name) of RefreshConfiguration
RefreshGet(p) ==
  /\ proc[p].pc = "RefreshGet"
  /\ proc' = [proc EXCEPT ![p].reread = env, ![p].pc = "RefreshUpdate"]
  /\ UNCHANGED <<env, ret, dec>>

\* RefreshConfiguration composes from the row it read and updates the
\* configuration column
RefreshUpdate(p) ==
  /\ proc[p].pc = "RefreshUpdate"
  /\ LET c == proc[p]
         r == RefreshConfiguration(c.reread, 0)
     IN IF r.err # NoErr
          THEN /\ proc' = [proc EXCEPT ![p].pc = "done",
                             ![p].err = IF c.op = "RefreshConfiguration" THEN r.err
                                        ELSE "error refreshing configuration"]
               /\ UNCHANGED env
          ELSE /\ env' = Update(env, "Configuration", r.env.Configuration)
               /\ proc' = [proc EXCEPT ![p].pc = "done"]
  /\ UNCHANGED <<ret, dec>>

NextConc ==
  \E p \in Procs :
    \/ Invoke(p)
    \/ Get(p)
    \/ UpdateFragment(p)
    \/ RefreshGet(p)
    \/ RefreshUpdate(p)

SpecConc == InitConc /\ [][NextConc]_vars

\* caller p has returned from the handler op without an error
Succeeded(p, op) ==
  proc[p].pc = "done" /\ proc[p].op = op /\ proc[p].err = NoErr

\* caller p has written the fragment of its AddOptionsConf
WroteOptions(p) ==
  proc[p].op = "AddOptionsConf" /\ proc[p].pc \in {"RefreshGet", "RefreshUpdate", "done"}
    /\ proc[p].err \in {NoErr, "error refreshing configuration"}

\* caller p has updated the configuration column
WroteConfiguration(p) == proc[p].pc = "done" /\ proc[p].err = NoErr

OptionsOf(text) == DOMAIN GenStructOptions(text).data.m

\* C8: last write wins.  Once a caller has written its options, the stored
\* options fragment is the text one caller computed from the row it had
\* read, whatever the others wrote in between; and once a caller has
\* updated the configuration, the configuration column is the composition
\* of the row some caller's refresh had read.
C8_LastWriteWins ==
  /\ (\E p \in Procs : WroteOptions(p)) =>
       \E w \in Procs :
         /\ WroteOptions(w)
         /\ env.Options = SerializedOptions(proc[w].read, proc[w].option,
                                            proc[w].value).str
  /\ (\E p \in Procs : WroteConfiguration(p)) =>
       \E w \in Procs :
         /\ WroteConfiguration(w)
         /\ env.Configuration = Composed(proc[w].reread)

\* two AddOptionsConf calls with different options have both returned no
\* error; the stored options hold only the second caller's option, and the
\* configuration, composed by the refresh of the first caller between the
\* two writes, holds only the first caller's
C8_Witness ==
  /\ Succeeded(1, "AddOptionsConf") /\ Succeeded(2, "AddOptionsConf")
  /\ proc[1].option = "k1" /\ proc[2].option = "k2"
  /\ OptionsOf(env.Options) = {"k2"}
  /\ OptionsOf(proc[1].reread.Options) = {"k1"}
  /\ env.Configuration = Composed(proc[1].reread)
  /\ env.Configuration # Composed(env)

\* callers p and q, and no other, have run: p an AddOptionsConf and q an
\* AddScheduleConfQuery, and both have returned no error
BothAdded(p, q) ==
  /\ Succeeded(p, "AddOptionsConf")
  /\ Succeeded(q, "AddScheduleConfQuery")
  /\ \A r \in Procs \ {p, q} : proc[r].pc = "idle"

\* the stored options hold the option of caller p, the stored schedule the
\* query of caller q
FragmentsHold(p, q) ==
  LET options == GenStructOptions(env.Options).data.m
      schedule == GenStructSchedule(env.Schedule).data.m
  IN /\ proc[p].option \in DOMAIN options
     /\ options[proc[p].option] = proc[p].value
     /\ proc[q].qName \in DOMAIN schedule
     /\ schedule[proc[q].qName] = proc[q].query

\* C20 (as claimed): when an AddOptionsConf and an AddScheduleConfQuery
\* that ran concurrently have both returned no error, the stored fragments
\* hold the option and the query, and the configuration column is the
\* composition of the five stored fragments, holding both.
C20_QuiescentConsistent ==
  \A p, q \in Procs :
    BothAdded(p, q) =>
      /\ FragmentsHold(p, q)
      /\ env.Configuration = Composed(env)
      /\ LET conf == GenStructConf(env.Configuration).data
         IN /\ proc[p].option \in DOMAIN conf.Options.m
            /\ proc[q].qName \in DOMAIN conf.Schedule.m

\* C20 (amended): when both have returned no error, the stored fragments
\* hold the option and the query and every option stored before; the
\* configuration column is the composition of the row that the refresh of
\* one of the two callers read, and holds that caller's own addition.
C20_FragmentsKeptComposedMayLag ==
  \A p, q \in Procs :
    BothAdded(p, q) =>
      /\ FragmentsHold(p, q)
      /\ OptionsOf(proc[p].read.Options) \subseteq OptionsOf(env.Options)
      /\ LET conf == GenStructConf(env.Configuration).data
         IN \/ /\ env.Configuration = Composed(proc[p].reread)
               /\ proc[p].option \in DOMAIN conf.Options.m
            \/ /\ env.Configuration = Composed(proc[q].reread)
               /\ proc[q].qName \in DOMAIN conf.Schedule.m

\* both calls have returned no error, both fragments are stored, and the
\* configuration column, written last by the AddOptionsConf from a row read
\* before the schedule was written, lacks the query
C20_Witness ==
  /\ BothAdded(1, 2)
  /\ FragmentsHold(1, 2)
  /\ env.Configuration # Composed(env)
  /\ env.Configuration = Composed(proc[1].reread)
  /\ "q1" \notin DOMAIN GenStructConf(env.Configuration).data.Schedule.m
  /\ proc[1].option \in DOMAIN GenStructConf(env.Configuration).data.Options.m

(***************************************************************************)
(* What the handlers write and what they leave alone (Spec).               *)
(***************************************************************************)
\* the pretty encoding of the configuration cnf, as UpdateConfiguration
\* writes it
Serialized(cnf) == GenSerializedConf(MarshalConf(cnf), TRUE).str

C16_WholeWritesComposedOnly ==
  (ret.op = "UpdateConfiguration" /\ ret.err = NoErr) =>
    /\ env.Configuration = Serialized(ret.cnf)
    /\ FragmentsUnchanged
    /\ LET r == RefreshConfiguration(env, 0)
       IN r.err = NoErr =>
            /\ r.env.Configuration = Composed(ret.before)
            /\ \A kind \in Fragments : r.env[kind] = ret.before[kind]
    /\ LET r == AddOptionsConf(env, "k1", GoString("X"), 0)
       IN r.err = NoErr => r.env.Configuration = Composed(r.env)

\* the whole configuration was replaced on a row whose fragments decode and
\* compose to something else: the next refresh will put that back
C16_Witness ==
  /\ ret.op = "UpdateConfiguration"
  /\ ret.err = NoErr
  /\ ret.cnf = FullConf
  /\ RefreshConfiguration(env, 0).err = NoErr
  /\ Composed(env) # env.Configuration
  /\ env.Options # EmptyString

\* C17 (as claimed): after a successful UpdateConfigurationParts of a
\* configuration, a RefreshConfiguration that the store serves succeeds and
\* leaves in the configuration column the pretty encoding of that
\* configuration, the text UpdateConfiguration writes for it.
C17_PartsThenRefresh ==
  (ret.op = "UpdateConfigurationParts" /\ ret.err = NoErr) =>
    LET r == RefreshConfiguration(env, 0)
    IN /\ r.err = NoErr
       /\ r.env.Configuration = Serialized(ret.cnf)

\* C18: the text RefreshConfiguration writes is the composition of the five
\* fragments of the row, whatever the configuration column held before,
\* and a second RefreshConfiguration leaves the row as the first left it.
C18_RefreshPureIdempotent ==
  (ret.op = "RefreshConfiguration" /\ ret.err = NoErr) =>
    /\ env.Configuration = Composed(ret.before)
    /\ \A c \in {EmptyString, Garbage, StaleConfiguration} :
         LET other == RefreshConfiguration([ret.before EXCEPT !.Configuration = c], 0)
         IN other.err = NoErr /\ other.env = env
    /\ RefreshConfiguration(env, 0) = Result(NoErr, env)

\* a refresh of a row that was already refreshed has left it as it was, the
\* configuration holding an option and a scheduled query
C18_Witness ==
  /\ ret.op = "RefreshConfiguration"
  /\ ret.err = NoErr
  /\ env = ret.before
  /\ env.Configuration = Composed(env)
  /\ "k1" \in DOMAIN GenStructConf(env.Configuration).data.Options.m
  /\ "q1" \in DOMAIN GenStructConf(env.Configuration).data.Schedule.m

\* C19 (as claimed): when AddOptionsConf or AddScheduleConfQuery returns an
\* error, the column of the fragment it is about and the configuration
\* column are as they were before the call.
C19_FailedMutationWritesNothing ==
  /\ (ret.op = "AddOptionsConf" /\ ret.err # NoErr) =>
       (env.Options = ret.before.Options
          /\ env.Configuration = ret.before.Configuration)
  /\ (ret.op = "AddScheduleConfQuery" /\ ret.err # NoErr) =>
       (env.Schedule = ret.before.Schedule
          /\ env.Configuration = ret.before.Configuration)

(***************************************************************************)
(* The text in the configuration column.                                   *)
(***************************************************************************)
\* C11 (as claimed): the text a successful RefreshConfiguration or
\* UpdateConfiguration leaves in the configuration column is a JSON object
\* with exactly the members options, schedule, packs,
\* auto_table_construction and decorators, each of them an object.
C11_ComposedFiveObjects ==
  (ret.op \in {"RefreshConfiguration", "UpdateConfiguration"} /\ ret.err = NoErr) =>
    LET j == env.Configuration.v
    IN /\ j.k = "object"
       /\ DOMAIN j.m = {"options", "schedule", "packs", "auto_table_construction",
                        "decorators"}
       /\ \A x \in DOMAIN j.m : j.m[x].k = "object"

=============================================================================
